---- MODULE Spec2Model ----
(***************************************************************************)
(* Model of service/musicbrainz/musicbrainz.go: the cached, rate-limited   *)
(* MusicBrainz lookup (SearchMusicBrainz), the release selector            *)
(* (GetBestRelease) and the hydrator (HydrateTrack).                       *)
(*                                                                         *)
(* Go strings are modelled as sequences of one-character strings, so that  *)
(* length, byte-wise comparison and escaping are computed, not assumed.    *)
(***************************************************************************)
EXTENDS Integers, Sequences, FiniteSets, TLC

VARIABLES
    clock,        \* wall clock, in ticks (time.Now())
    searchCache,  \* s.searchCache: cache key -> cacheEntry (read/written under s.cacheMutex)
    heap,         \* backing arrays of decoded responses: ref -> []MusicBrainzRecording
    limiter,      \* s.limiter: the token bucket of rate.NewLimiter(rate.Every(time.Second), 1)
    calls,        \* per goroutine: the position and locals of its current call
    crashed,      \* TRUE once a goroutine has panicked (an unrecovered panic ends the program)
    ncalls,       \* number of calls started so far
    fetched,      \* history: ref -> the recordings as the populating fetch decoded them
    selPc,        \* release-selector harness: position
    selIn,        \* release-selector harness: the caller's slice before the call
    selTitle,     \* release-selector harness: trackTitle
    selOut,       \* release-selector harness: the returned *MusicBrainzRelease
    selArr,       \* release-selector harness: the caller's slice after the call
    selPerm,      \* release-selector harness: the same releases in another order
    selOutPerm,   \* release-selector harness: the release returned for selPerm
    keyPc,        \* cache-key harness: position
    keyA,         \* cache-key harness: one SearchParams (after cleaning)
    keyB,         \* cache-key harness: another SearchParams (after cleaning)
    keyOfA,       \* cache-key harness: generateCacheKey(keyA)
    keyOfB,       \* cache-key harness: generateCacheKey(keyB)
    cacheMutex,   \* lock-level model: s.cacheMutex (the writer and the readers holding it)
    slots,        \* lock-level model: s.searchCache, one slot per key, written field by field
    lkCalls,      \* lock-level model: per goroutine, the position and locals of its call
    written,      \* lock-level model, history: the entries the writes were given
    lkClock       \* lock-level model: time.Now()

vars == <<clock, searchCache, heap, limiter, calls, crashed, ncalls, fetched,
          selPc, selIn, selTitle, selOut, selArr, selPerm, selOutPerm,
          keyPc, keyA, keyB, keyOfA, keyOfB,
          cacheMutex, slots, lkCalls, written, lkClock>>

svcVars == <<clock, searchCache, heap, limiter, calls, crashed, ncalls, fetched>>

selVars == <<selPc, selIn, selTitle, selOut, selArr, selPerm, selOutPerm>>

keyVars == <<keyPc, keyA, keyB, keyOfA, keyOfB>>

lockVars == <<cacheMutex, slots, lkCalls, written, lkClock>>

-----------------------------------------------------------------------------
(* Strings *)

\* Byte values of the characters the model uses (Go compares strings byte-wise).
Ascii ==
    [c \in {" ", "&", "*", "-", "0", "1", "2", "5", "9", "=", "D", "E", "S", "U",
            "W", "X", "Y", "a", "b", "c", "r"} |->
        CASE c = " " -> 32 [] c = "&" -> 38 [] c = "*" -> 42 [] c = "-" -> 45
          [] c = "0" -> 48 [] c = "1" -> 49 [] c = "2" -> 50 [] c = "5" -> 53
          [] c = "9" -> 57 [] c = "=" -> 61 [] c = "D" -> 68 [] c = "E" -> 69
          [] c = "S" -> 83 [] c = "U" -> 85 [] c = "W" -> 87 [] c = "X" -> 88
          [] c = "Y" -> 89 [] c = "a" -> 97 [] c = "b" -> 98 [] c = "c" -> 99
          [] c = "r" -> 114]

\* Go's a < b on strings: byte-wise lexicographic, a proper prefix is smaller.
RECURSIVE StrLess(_, _)
StrLess(a, b) ==
    IF b = <<>> THEN FALSE
    ELSE IF a = <<>> THEN TRUE
    ELSE IF Ascii[Head(a)] # Ascii[Head(b)] THEN Ascii[Head(a)] < Ascii[Head(b)]
    ELSE StrLess(Tail(a), Tail(b))

-----------------------------------------------------------------------------
(* GetBestRelease *)

\* The result of GetBestRelease when it returns nil.
NilRelease == [isNil |-> TRUE]

\* A non-nil *MusicBrainzRelease, by the value it points to.
PtrTo(r) == [isNil |-> FALSE, rel |-> r]

\* A mutant of the comparison: the date-validity split is left out.
ReleaseLess_NoValidity(a, b) ==
    IF a.Date # b.Date THEN StrLess(a.Date, b.Date)
    ELSE IF a.Title # b.Title THEN StrLess(a.Title, b.Title)
    ELSE StrLess(a.ID, b.ID)

\* A mutant of the comparison: the tie-break by ID is left out.
ReleaseLess_NoID(a, b) ==
    LET validDateA == Len(a.Date) >= 4
        validDateB == Len(b.Date) >= 4
    IN  IF validDateA /\ ~validDateB THEN TRUE
        ELSE IF ~validDateA /\ validDateB THEN FALSE
        ELSE IF a.Date # b.Date THEN StrLess(a.Date, b.Date)
        ELSE IF a.Title # b.Title THEN StrLess(a.Title, b.Title)
        ELSE FALSE

\* The less function handed to sort.SliceStable.
ReleaseLess(a, b) ==
    LET validDateA == Len(a.Date) >= 4
        validDateB == Len(b.Date) >= 4
    IN  IF validDateA /\ ~validDateB THEN TRUE
        ELSE IF ~validDateA /\ validDateB THEN FALSE
        ELSE IF a.Date # b.Date THEN StrLess(a.Date, b.Date)
        ELSE IF a.Title # b.Title THEN StrLess(a.Title, b.Title)
        ELSE StrLess(a.ID, b.ID)

\* x inserted into the sorted s behind every element that is not greater than it.
RECURSIVE InsertStable(_, _)
InsertStable(x, s) ==
    IF s = <<>> THEN <<x>>
    ELSE IF ReleaseLess(x, Head(s)) THEN <<x>> \o s
    ELSE <<Head(s)>> \o InsertStable(x, Tail(s))

\* sort.SliceStable(releases, less): the stable sort of the slice.
RECURSIVE SortStable(_)
SortStable(s) ==
    IF s = <<>> THEN <<>>
    ELSE InsertStable(s[Len(s)], SortStable(SubSeq(s, 1, Len(s) - 1)))

\* The caller's slice after GetBestRelease: sorted in place when it has two or more elements.
ReleasesAfter(releases) ==
    IF Len(releases) < 2 THEN releases ELSE SortStable(releases)

\* The index at which a loop over the flags first finds one set (there is one).
FirstWhere(flags) ==
    CHOOSE i \in 1..Len(flags) : flags[i] /\ \A j \in 1..(i - 1) : ~flags[j]

PreferredCountry(r, trackTitle) ==
    (r.Country = <<"X", "W">> \/ r.Country = <<"U", "S">>) /\ r.Title # trackTitle

OtherTitle(r, trackTitle) == r.Title # trackTitle

\* A mutant of the selector: a single release is returned only when its title is not
\* the track title.
GetBestRelease_SingleFiltered(releases, trackTitle) ==
    IF Len(releases) = 0 THEN NilRelease
    ELSE IF Len(releases) = 1
    THEN IF OtherTitle(releases[1], trackTitle) THEN PtrTo(releases[1]) ELSE NilRelease
    ELSE LET sorted == SortStable(releases)
             p1 == [i \in 1..Len(sorted) |-> PreferredCountry(sorted[i], trackTitle)]
             p2 == [i \in 1..Len(sorted) |-> OtherTitle(sorted[i], trackTitle)]
         IN  IF \E i \in 1..Len(sorted) : p1[i] THEN PtrTo(sorted[FirstWhere(p1)])
             ELSE IF \E i \in 1..Len(sorted) : p2[i] THEN PtrTo(sorted[FirstWhere(p2)])
             ELSE PtrTo(sorted[1])

GetBestRelease(releases, trackTitle) ==
    IF Len(releases) = 0 THEN NilRelease
    ELSE IF Len(releases) = 1 THEN PtrTo(releases[1])
    ELSE LET sorted == SortStable(releases)
             p1 == [i \in 1..Len(sorted) |-> PreferredCountry(sorted[i], trackTitle)]
             p2 == [i \in 1..Len(sorted) |-> OtherTitle(sorted[i], trackTitle)]
         IN  IF \E i \in 1..Len(sorted) : p1[i] THEN PtrTo(sorted[FirstWhere(p1)])
             ELSE IF \E i \in 1..Len(sorted) : p2[i] THEN PtrTo(sorted[FirstWhere(p2)])
             ELSE PtrTo(sorted[1])

-----------------------------------------------------------------------------
(* Bounds of the model *)

\* Number of calls in one run; each is made by a goroutine of its own, so any
\* number of them, up to all, are in progress at the same time.
MaxCalls == 2

\* The clock stops here.
MaxTime == 3

\* Clock ticks per second (the resolution of time).
Second == 2

\* s.cacheTTL in ticks. The service sets one hour; the model keeps the TTL longer
\* than the limiter's interval and short enough for entries to expire before MaxTime.
cacheTTL == Second + 1

Procs == 1..MaxCalls

-----------------------------------------------------------------------------
(* Data *)

EmptyStr == <<>>

NoParams == [Track |-> EmptyStr, Artist |-> EmptyStr, Release |-> EmptyStr]

SearchInputs ==
    { [Track |-> EmptyStr, Artist |-> EmptyStr, Release |-> EmptyStr],
      [Track |-> <<"a", "*">>, Artist |-> EmptyStr, Release |-> EmptyStr],
      [Track |-> EmptyStr, Artist |-> <<"b">>, Release |-> EmptyStr] }

\* models.Track values handed to HydrateTrack.
HydrateInputs ==
    { [Name |-> <<"a">>, Artist |-> <<>>, Album |-> EmptyStr, ISRC |-> <<"c">>,
       HasStamped |-> TRUE, PlayID |-> 1, URL |-> <<"a">>, ServiceBaseUrl |-> <<"b">>,
       Timestamp |-> 1, ProgressMs |-> 1],
      [Name |-> EmptyStr, Artist |-> << [Name |-> <<"b">>, ID |-> <<"a">>, MBID |-> <<"a">>] >>,
       Album |-> EmptyStr, ISRC |-> <<"c">>,
       HasStamped |-> FALSE, PlayID |-> 2, URL |-> <<"b">>, ServiceBaseUrl |-> <<"a">>,
       Timestamp |-> 2, ProgressMs |-> 2] }

RelUS1990 ==
    [ID |-> <<"a">>, Title |-> <<"Y">>, Date |-> <<"1", "9", "9", "0">>, Country |-> <<"U", "S">>]

RelDE2005 ==
    [ID |-> <<"b">>, Title |-> <<"Y">>, Date |-> <<"2", "0", "0", "5">>, Country |-> <<"D", "E">>]

Credit == [Name |-> <<"b">>, ArtistID |-> <<"c">>]

\* A recording whose releases arrive newest first.
RecUnsorted ==
    [ID |-> <<"r", "1">>, Title |-> <<"X">>, Length |-> 1, ISRCs |-> << <<"S">> >>,
     ArtistCredit |-> <<Credit>>, Releases |-> <<RelDE2005, RelUS1990>>]

RecSecond ==
    [ID |-> <<"r", "2">>, Title |-> <<"Y">>, Length |-> 2, ISRCs |-> << <<"E">> >>,
     ArtistCredit |-> <<>>, Releases |-> <<RelUS1990>>]

RecNoReleases ==
    [ID |-> <<"r", "2">>, Title |-> <<"X">>, Length |-> 1, ISRCs |-> << <<"S">> >>,
     ArtistCredit |-> <<Credit>>, Releases |-> <<>>]

RecNoISRC ==
    [ID |-> <<"r", "1">>, Title |-> <<"X">>, Length |-> 1, ISRCs |-> <<>>,
     ArtistCredit |-> <<Credit>>, Releases |-> <<RelUS1990>>]

\* result.Recordings of the bodies the upstream may answer with.
Responses ==
    { <<>>, <<RecUnsorted, RecSecond>>, <<RecUnsorted>>, <<RecNoReleases>>, <<RecNoISRC>> }

-----------------------------------------------------------------------------
(* Normalisation and the cache key *)

\* The cleaner removes formatting characters; "*" stands for them.
RECURSIVE Clean(_)
Clean(s) ==
    IF s = <<>> THEN <<>>
    ELSE IF Head(s) = "*" THEN Clean(Tail(s))
    ELSE <<Head(s)>> \o Clean(Tail(s))

CleanRecording(s) == Clean(s)

CleanArtist(s) == Clean(s)

\* url.QueryEscape of one character.
EscapeChar(c) ==
    CASE c = " " -> <<"+">>
      [] c = "&" -> <<"%", "2", "6">>
      [] c = "=" -> <<"%", "3", "D">>
      [] c = "*" -> <<"%", "2", "A">>
      [] c = "%" -> <<"%", "2", "5">>
      [] c = "+" -> <<"%", "2", "B">>
      [] c = "," -> <<"%", "2", "C">>
      [] OTHER -> <<c>>

\* A mutant of the escaping: the value is put into the key as it is.
QueryEscape_Raw(s) == s

RECURSIVE QueryEscape(_)
QueryEscape(s) ==
    IF s = <<>> THEN <<>> ELSE EscapeChar(Head(s)) \o QueryEscape(Tail(s))

generateCacheKey(params) ==
    <<"t", "r", "a", "c", "k", "=">> \o QueryEscape(params.Track)
        \o <<"&", "a", "r", "t", "i", "s", "t", "=">> \o QueryEscape(params.Artist)
        \o <<"&", "r", "e", "l", "e", "a", "s", "e", "=">> \o QueryEscape(params.Release)

\* A mutant of the validation: the last comparison is inverted.
IsEmptyParams_Typo(params) ==
    params.Track = EmptyStr /\ params.Artist = EmptyStr /\ params.Release # EmptyStr

\* The validation of SearchMusicBrainz: no search field is given.
IsEmptyParams(params) ==
    params.Track = EmptyStr /\ params.Artist = EmptyStr /\ params.Release = EmptyStr

\* strings.Join(names, ", ")
RECURSIVE JoinNames(_)
JoinNames(artists) ==
    IF artists = <<>> THEN <<>>
    ELSE IF Len(artists) = 1 THEN artists[1].Name
    ELSE artists[1].Name \o <<",", " ">> \o JoinNames(Tail(artists))

\* The SearchParams HydrateTrack builds from its track.
ParamsOfTrack(track) ==
    [Track |-> track.Name, Artist |-> JoinNames(track.Artist), Release |-> track.Album]

-----------------------------------------------------------------------------
(* The rate limiter: rate.NewLimiter(rate.Every(time.Second), 1).          *)
(* Tokens are counted in ticks: one token is Second ticks of refill.       *)

\* The burst handed to rate.NewLimiter.
Burst == 1

\* A mutant of the construction: a burst of two.
BurstTokens_Two == (Burst + 1) * Second

\* The bucket's capacity, in ticks of refill.
BurstTokens == Burst * Second

Min(a, b) == IF a < b THEN a ELSE b

\* Limiter.advance: the tokens the bucket holds at time t.
Advance(lim, t) ==
    LET last == Min(lim.last, t)
    IN  Min(BurstTokens, lim.tokens + (t - last))

\* Limiter.reserveN(t, 1): the reservation and the limiter after it.
ReserveN(lim, t) ==
    LET tokens == Advance(lim, t) - Second
        waitDuration == IF tokens < 0 THEN 0 - tokens ELSE 0
    IN  [timeToAct |-> t + waitDuration,
         lim |-> [tokens |-> tokens, last |-> t, lastEvent |-> t + waitDuration]]

\* Reservation.CancelAt(t) of a reservation of one token due at timeToAct.
CancelAt(lim, timeToAct, t) ==
    LET restoreTokens == Second - (lim.lastEvent - timeToAct)
        tokens == Min(BurstTokens, Advance(lim, t) + restoreTokens)
        prevEvent == timeToAct - Second
    IN  IF timeToAct < t \/ restoreTokens <= 0 THEN lim
        ELSE [tokens |-> tokens, last |-> t,
              lastEvent |-> IF timeToAct = lim.lastEvent /\ prevEvent >= t
                            THEN prevEvent ELSE lim.lastEvent]

-----------------------------------------------------------------------------
(* The service *)

\* The locals of a goroutine that has no call in progress.
IdleCall ==
    [pc |-> "idle", op |-> "none", params |-> [Track |-> EmptyStr, Artist |-> EmptyStr, Release |-> EmptyStr],
     track |-> <<>>, cancelled |-> FALSE, cancelledIn |-> "none",
     cleaned |-> FALSE, cacheRead |-> FALSE, key |-> <<>>, now |-> 0,
     seen |-> "unread", hit |-> FALSE,
     timeToAct |-> 0, waited |-> FALSE, admits |-> 0, requests |-> 0, reqAt |-> 0,
     returned |-> FALSE, err |-> "none", ref |-> 0, ret |-> <<>>, expires |-> 0,
     herr |-> "none", out |-> <<>>, prior |-> {}]

\* f with key k set to v.
Put(f, k, v) == [x \in DOMAIN f \cup {k} |-> IF x = k THEN v ELSE f[x]]

\* A mutant of the hit test: the expiry time is not looked at.
IsCacheHit_FoundOnly(found, now, expiresAt) == found

\* found && now.Before(entry.expiresAt)
IsCacheHit(found, now, expiresAt) == found /\ now < expiresAt

\* A mutant of the store: the entry expires TTL after the call's first time.Now().
ExpiresAt_FromCallStart(now, t) == now + cacheTTL

\* expiresAt of the entry a call stores: time.Now().Add(s.cacheTTL) at the write;
\* now is the time the call read before its cache check, t the time of the write.
ExpiresAt(now, t) == t + cacheTTL

\* A mutant of the store: the entry is written whatever the fetch ended in.
CacheAfterResponse_Always(cache, key, outcome, ref, expiresAt) ==
    Put(cache, key, [recordings |-> ref, expiresAt |-> expiresAt])

\* s.searchCache after the response of a fetch: written on success only.
CacheAfterResponse(cache, key, outcome, ref, expiresAt) ==
    IF outcome = "ok" THEN Put(cache, key, [recordings |-> ref, expiresAt |-> expiresAt])
    ELSE cache

\* The recordings a slice refers to; ref 0 is the nil slice.
Deref(h, ref) == IF ref = 0 THEN <<>> ELSE h[ref]

\* A mutant of the return: a status error sends the call back to the limiter.
Returned_RetryOnStatus(c, err, ref, h, expires) ==
    IF err = "status" THEN [c EXCEPT !.pc = "wait"]
    ELSE [c EXCEPT !.pc = IF c.op = "search" THEN "done" ELSE "post",
                   !.returned = TRUE, !.err = err, !.ref = ref, !.now = 0,
                   !.ret = IF err = "none" THEN Deref(h, ref) ELSE <<>>,
                   !.expires = expires]

\* The call c once SearchMusicBrainz has returned (err, recordings at ref) to it.
Returned(c, err, ref, h, expires) ==
    [c EXCEPT !.pc = IF c.op = "search" THEN "done" ELSE "post",
              !.returned = TRUE, !.err = err, !.ref = ref, !.now = 0,
              !.ret = IF err = "none" THEN Deref(h, ref) ELSE <<>>,
              !.expires = expires]

\* History: what the successful SearchMusicBrainz calls that have returned for this
\* key, from entries that have not expired at time t, returned.
PriorReturns(key, t) ==
    { calls[q].ret : q \in { r \in Procs : /\ calls[r].returned
                                            /\ calls[r].err = "none"
                                            /\ calls[r].key = key
                                            /\ t < calls[r].expires } }

\* The lock-level model when it is not in use.
LockOff ==
    /\ cacheMutex = [writer |-> 0, readers |-> {}]
    /\ slots = <<>>
    /\ lkCalls = <<>>
    /\ written = {}
    /\ lkClock = 0

Init ==
    /\ clock = 0
    /\ searchCache = <<>>
    /\ heap = <<>>
    /\ limiter = [tokens |-> BurstTokens, last |-> 0, lastEvent |-> 0]
    /\ calls = [p \in Procs |-> IdleCall]
    /\ crashed = FALSE
    /\ ncalls = 0
    /\ fetched = <<>>
    /\ selPc = "off"
    /\ selIn = <<>>
    /\ selTitle = <<>>
    /\ selOut = NilRelease
    /\ selArr = <<>>
    /\ selPerm = <<>>
    /\ selOutPerm = NilRelease
    /\ keyPc = "off"
    /\ keyA = NoParams
    /\ keyB = NoParams
    /\ keyOfA = <<>>
    /\ keyOfB = <<>>
    /\ LockOff

\* Lines 111-122 of SearchMusicBrainz: validation, cleaning, the key and now.
Enter(p, op, params, track) ==
    /\ ~crashed
    /\ calls[p].pc = "idle"
    /\ p = ncalls + 1
    /\ ncalls' = ncalls + 1
    /\ LET c0 == [IdleCall EXCEPT !.op = op, !.params = params, !.track = track]
           cleanedParams == [params EXCEPT !.Track = CleanRecording(params.Track),
                                           !.Artist = CleanArtist(params.Artist)]
           key == generateCacheKey(cleanedParams)
       IN  IF IsEmptyParams(params)
           THEN calls' = [calls EXCEPT ![p] = Returned(c0, "invalid_input", 0, heap, 0)]
           ELSE calls' = [calls EXCEPT ![p] =
                    [c0 EXCEPT !.pc = "check", !.cleaned = TRUE, !.key = key, !.now = clock,
                               !.prior = PriorReturns(key, clock)]]
    /\ UNCHANGED <<clock, searchCache, heap, limiter, crashed, fetched>>
    /\ UNCHANGED <<selVars, keyVars, lockVars>>

SearchMusicBrainz(p) ==
    \E params \in SearchInputs : Enter(p, "search", params, <<>>)

\* HydrateTrack up to its call of SearchMusicBrainz, which gets context.Background().
HydrateTrack(p) ==
    \E track \in HydrateInputs :
        Enter(p, "hydrate", ParamsOfTrack(track), <<track>>)

\* Lines 124-139: the read under the read lock and the hit test.
CheckCache(p) ==
    /\ ~crashed
    /\ calls[p].pc = "check"
    /\ LET c == calls[p]
           found == c.key \in DOMAIN searchCache
           expiresAt == IF found THEN searchCache[c.key].expiresAt ELSE 0
           c1 == [c EXCEPT !.cacheRead = TRUE,
                           !.seen = IF ~found THEN "absent"
                                    ELSE IF c.now < expiresAt THEN "fresh" ELSE "expired"]
       IN  IF IsCacheHit(found, c.now, expiresAt)
           THEN calls' = [calls EXCEPT ![p] =
                    Returned([c1 EXCEPT !.hit = TRUE], "none",
                             searchCache[c.key].recordings, heap, expiresAt)]
           ELSE calls' = [calls EXCEPT ![p] = [c1 EXCEPT !.pc = "wait"]]
    /\ UNCHANGED <<clock, searchCache, heap, limiter, crashed, ncalls, fetched>>
    /\ UNCHANGED <<selVars, keyVars, lockVars>>

\* A mutant of the admission: the request goes out whatever the state of the context.
Admitted_SendsAnyway(c, timeToAct, t) ==
    [c EXCEPT !.pc = "inflight", !.timeToAct = timeToAct, !.admits = c.admits + 1,
              !.requests = c.requests + 1, !.reqAt = t]

\* The call c with limiter.Wait returned nil: lines 162-168 build the request and
\* hand it to httpClient.Do. The client sends nothing for a context that is already
\* cancelled: Do then fails with the context's error.
Admitted(c, timeToAct, t) ==
    [c EXCEPT !.pc = "inflight", !.timeToAct = timeToAct, !.admits = c.admits + 1,
              !.requests = c.requests + (IF c.cancelled THEN 0 ELSE 1), !.reqAt = t]

\* Line 155: limiter.Wait(ctx) up to its reservation. Wait first looks at ctx.Done(),
\* then reserves one token; with no delay it returns at once. (Contexts with a
\* deadline, the other way Wait can fail, are not modelled.)
LimiterWait(p) ==
    /\ ~crashed
    /\ calls[p].pc = "wait"
    /\ LET c == calls[p]
           r == ReserveN(limiter, clock)
       IN  IF c.cancelled
           THEN /\ calls' = [calls EXCEPT ![p] = Returned(c, "cancelled", 0, heap, 0)]
                /\ limiter' = limiter
           ELSE /\ limiter' = r.lim
                /\ IF r.timeToAct = clock
                   THEN calls' = [calls EXCEPT ![p] = Admitted(c, r.timeToAct, clock)]
                   ELSE calls' = [calls EXCEPT ![p] = [c EXCEPT !.pc = "sleep", !.waited = TRUE,
                                                                 !.timeToAct = r.timeToAct]]
    /\ UNCHANGED <<clock, searchCache, heap, crashed, ncalls, fetched>>
    /\ UNCHANGED <<selVars, keyVars, lockVars>>

\* limiter.Wait: the timer of the reservation fires and Wait returns nil.
TimerFires(p) ==
    /\ ~crashed
    /\ calls[p].pc = "sleep"
    /\ clock >= calls[p].timeToAct
    /\ calls' = [calls EXCEPT ![p] = Admitted(calls[p], calls[p].timeToAct, clock)]
    /\ UNCHANGED <<clock, searchCache, heap, limiter, crashed, ncalls, fetched>>
    /\ UNCHANGED <<selVars, keyVars, lockVars>>

\* limiter.Wait: ctx.Done() wins the select; the reservation is cancelled (lines 155-158).
WaitCancelled(p) ==
    /\ ~crashed
    /\ calls[p].pc = "sleep"
    /\ calls[p].cancelled
    /\ limiter' = CancelAt(limiter, calls[p].timeToAct, clock)
    /\ calls' = [calls EXCEPT ![p] = Returned(calls[p], "cancelled", 0, heap, 0)]
    /\ UNCHANGED <<clock, searchCache, heap, crashed, ncalls, fetched>>
    /\ UNCHANGED <<selVars, keyVars, lockVars>>

\* What httpClient.Do and the decoding of the body can end in.
Outcomes == {"ok", "request_failed", "request_ctx", "status", "decode"}

\* Lines 168-198: httpClient.Do returns (the client's Timeout of line 90 bounds the
\* round trip); on success the entry is stored under the write lock.
Response(p) ==
    /\ ~crashed
    /\ calls[p].pc = "inflight"
    /\ \E outcome \in Outcomes, body \in Responses :
        LET c == calls[p]
            ref == Len(heap) + 1
            expiresAt == ExpiresAt(c.now, clock)
        IN  /\ outcome = "request_ctx" => c.cancelled
            /\ outcome = "request_failed" => ~c.cancelled
            /\ c.requests = 0 => outcome = "request_ctx"
            /\ searchCache' = CacheAfterResponse(searchCache, c.key, outcome, ref, expiresAt)
            /\ IF outcome = "ok"
               THEN /\ heap' = Append(heap, body)
                    /\ fetched' = Append(fetched, body)
                    /\ calls' = [calls EXCEPT ![p] =
                           Returned(c, "none", ref, Append(heap, body), expiresAt)]
               ELSE /\ calls' = [calls EXCEPT ![p] = Returned(c, outcome, 0, heap, 0)]
                    /\ UNCHANGED <<heap, fetched>>
    /\ UNCHANGED <<clock, limiter, crashed, ncalls>>
    /\ UNCHANGED <<selVars, keyVars, lockVars>>

\* models.Artist values built from the artist credits (lines 290-298).
RECURSIVE ArtistsOf(_)
ArtistsOf(credits) ==
    IF credits = <<>> THEN <<>>
    ELSE <<[Name |-> Head(credits).Name, ID |-> Head(credits).ArtistID,
            MBID |-> Head(credits).ArtistID]>> \o ArtistsOf(Tail(credits))

\* A mutant of the result: the input's artist list is kept.
ResTrack_KeepsInputArtists(track, firstResult, album, bestISRC) ==
    [HasStamped |-> track.HasStamped, PlayID |-> track.PlayID, Name |-> track.Name,
     URL |-> track.URL, ServiceBaseUrl |-> track.ServiceBaseUrl,
     RecordingMBID |-> firstResult.ID, Album |-> album.Title, ReleaseMBID |-> album.ID,
     ISRC |-> bestISRC, Timestamp |-> track.Timestamp, ProgressMs |-> track.ProgressMs,
     DurationMs |-> firstResult.Length, Artist |-> track.Artist]

\* The models.Track of lines 300-314.
ResTrack(track, firstResult, album, bestISRC) ==
    [HasStamped |-> track.HasStamped, PlayID |-> track.PlayID, Name |-> track.Name,
     URL |-> track.URL, ServiceBaseUrl |-> track.ServiceBaseUrl,
     RecordingMBID |-> firstResult.ID, Album |-> album.Title, ReleaseMBID |-> album.ID,
     ISRC |-> bestISRC, Timestamp |-> track.Timestamp, ProgressMs |-> track.ProgressMs,
     DurationMs |-> firstResult.Length, Artist |-> ArtistsOf(firstResult.ArtistCredit)]

\* A mutant of the error returns: the search's error is replaced by one of
\* HydrateTrack's own.
HydrateError_Replaced(err, n) ==
    IF err # "none" THEN "search_failed" ELSE IF n = 0 THEN "no_results" ELSE "none"

\* Lines 273-279: the error HydrateTrack returns before it looks at a candidate;
\* err is the search's error, n the number of recordings it returned.
HydrateError(err, n) ==
    IF err # "none" THEN err ELSE IF n = 0 THEN "no_results" ELSE "none"

\* Lines 273-316 of HydrateTrack, after SearchMusicBrainz has returned.
\* GetBestRelease sorts firstResult.Releases in place: the slice shares its backing
\* array with the recordings SearchMusicBrainz returned. The sort is one step here;
\* its interleavings with other goroutines' reads of the array are not explored.
HydratePost(p) ==
    /\ ~crashed
    /\ calls[p].pc = "post"
    /\ LET c == calls[p]
           res == Deref(heap, c.ref)
           track == c.track[1]
       IN  IF HydrateError(c.err, Len(res)) # "none"
           THEN /\ calls' = [calls EXCEPT ![p] =
                        [c EXCEPT !.pc = "done", !.herr = HydrateError(c.err, Len(res))]]
                /\ UNCHANGED <<heap, crashed>>
           ELSE LET firstResult == res[1]
                    album == GetBestRelease(firstResult.Releases, firstResult.Title)
                IN  /\ heap' = [heap EXCEPT ![c.ref][1].Releases = ReleasesAfter(firstResult.Releases)]
                    /\ IF Len(firstResult.ISRCs) = 0
                       THEN \* line 284: index out of range
                            /\ calls' = [calls EXCEPT ![p] = [c EXCEPT !.pc = "done", !.herr = "panic"]]
                            /\ crashed' = TRUE
                       ELSE IF album.isNil
                       THEN \* line 307: nil pointer dereference
                            /\ calls' = [calls EXCEPT ![p] = [c EXCEPT !.pc = "done", !.herr = "panic"]]
                            /\ crashed' = TRUE
                       ELSE /\ calls' = [calls EXCEPT ![p] = [c EXCEPT !.pc = "done",
                                  !.out = <<ResTrack(track, firstResult, album.rel, firstResult.ISRCs[1])>>]]
                            /\ crashed' = crashed
    /\ UNCHANGED <<clock, searchCache, limiter, ncalls, fetched>>
    /\ UNCHANGED <<selVars, keyVars, lockVars>>

\* The caller cancels the context it handed to SearchMusicBrainz (HydrateTrack hands
\* it context.Background(), which is never cancelled).
Cancel(p) ==
    /\ ~crashed
    /\ calls[p].op = "search"
    /\ ~calls[p].cancelled
    /\ calls[p].pc \in {"wait", "sleep", "inflight"}
    /\ calls' = [calls EXCEPT ![p].cancelled = TRUE, ![p].cancelledIn = calls[p].pc]
    /\ UNCHANGED <<clock, searchCache, heap, limiter, crashed, ncalls, fetched>>
    /\ UNCHANGED <<selVars, keyVars, lockVars>>

\* Time passes, as long as a call is in progress or still to come. A timer that is
\* due fires before the clock moves on.
Tick ==
    /\ ~crashed
    /\ clock < MaxTime
    /\ \E p \in Procs : calls[p].pc # "done"
    /\ \A p \in Procs : calls[p].pc = "sleep" => clock < calls[p].timeToAct
    /\ clock' = clock + 1
    /\ UNCHANGED <<searchCache, heap, limiter, calls, crashed, ncalls, fetched>>
    /\ UNCHANGED <<selVars, keyVars, lockVars>>

Next ==
    \/ \E p \in Procs : SearchMusicBrainz(p)
    \/ \E p \in Procs : HydrateTrack(p)
    \/ \E p \in Procs : CheckCache(p)
    \/ \E p \in Procs : LimiterWait(p)
    \/ \E p \in Procs : TimerFires(p)
    \/ \E p \in Procs : WaitCancelled(p)
    \/ \E p \in Procs : Response(p)
    \/ \E p \in Procs : HydratePost(p)
    \/ \E p \in Procs : Cancel(p)
    \/ Tick

Spec == Init /\ [][Next]_vars

\* The steps of the goroutine p once its call has started.
Step(p) ==
    \/ CheckCache(p)
    \/ LimiterWait(p)
    \/ TimerFires(p)
    \/ WaitCancelled(p)
    \/ Response(p)
    \/ HydratePost(p)

\* The service under calls of SearchMusicBrainz alone (the calls that can be
\* cancelled: HydrateTrack hands its search context.Background()).
SearchNext ==
    \/ \E p \in Procs : SearchMusicBrainz(p)
    \/ \E p \in Procs : CheckCache(p)
    \/ \E p \in Procs : LimiterWait(p)
    \/ \E p \in Procs : TimerFires(p)
    \/ \E p \in Procs : WaitCancelled(p)
    \/ \E p \in Procs : Response(p)
    \/ \E p \in Procs : Cancel(p)
    \/ Tick

\* With its scheduling: a goroutine that can take a step takes one (a ready select
\* case is taken, a Do that was started returns).
SearchSpec == Init /\ [][SearchNext]_vars /\ \A p \in Procs : WF_vars(Step(p))

-----------------------------------------------------------------------------
(* SearchMusicBrainz at the level of its lock operations. The map read of   *)
(* line 126 and the map write of lines 189-192 are each two steps (one per  *)
(* field of the cacheEntry); the limiter and the round trip are the two     *)
(* suspended positions between them.                                        *)

\* The keys the calls ask for.
LkKeys == { 1, 2 }

\* A key with no entry in the map.
NoEntry == [present |-> FALSE, recordings |-> 0, expiresAt |-> 0]

\* The entry a call that returned before the run stored at time 0.
EarlierEntry == [present |-> TRUE, recordings |-> 1, expiresAt |-> ExpiresAt(0, 0)]

\* The locals of a goroutine before its call.
LkIdle ==
    [pc |-> "idle", key |-> 0, now |-> 0, found |-> FALSE, recordings |-> 0, expiresAt |-> 0,
     hit |-> FALSE, suspended |-> {}, arrivedDuring |-> "none", newEntry |-> NoEntry]

\* The positions between RLock and RUnlock (lines 125-127).
ReadSection == {"read1", "read2", "runlock"}

\* The positions between the start of Lock and Unlock (lines 188-193).
WriteSection == {"lockwait", "write1", "write2", "unlock"}

\* The positions in which a call is suspended in limiter.Wait or httpClient.Do.
Suspended == {"wait", "inflight"}

\* A mutant of RLock: it does not wait for the writer.
CanRLock_Always(m) == TRUE

\* sync.RWMutex: RLock returns when no writer holds or awaits the lock.
CanRLock(m) == m.writer = 0

\* sync.RWMutex: Lock goes on when no other writer holds or awaits the lock.
CanLock(m) == m.writer = 0

\* sync.RWMutex: Lock returns when the readers that held the lock are gone.
ReadersGone(m) == m.readers = {}

\* A mutant of line 127: the read lock is not given back.
AfterRUnlock_Kept(m, p) == m

\* s.cacheMutex after RUnlock by p (line 127).
AfterRUnlock(m, p) == [m EXCEPT !.readers = @ \ {p}]

LockInit ==
    /\ clock = 0
    /\ searchCache = <<>>
    /\ heap = <<>>
    /\ limiter = [tokens |-> BurstTokens, last |-> 0, lastEvent |-> 0]
    /\ calls = [p \in Procs |-> IdleCall]
    /\ crashed = FALSE
    /\ ncalls = 0
    /\ fetched = <<>>
    /\ selPc = "off"
    /\ selIn = <<>>
    /\ selTitle = <<>>
    /\ selOut = NilRelease
    /\ selArr = <<>>
    /\ selPerm = <<>>
    /\ selOutPerm = NilRelease
    /\ keyPc = "off"
    /\ keyA = NoParams
    /\ keyB = NoParams
    /\ keyOfA = <<>>
    /\ keyOfB = <<>>
    /\ cacheMutex = [writer |-> 0, readers |-> {}]
    /\ slots \in { [k \in LkKeys |-> NoEntry],
                   [k \in LkKeys |-> IF k = 1 THEN EarlierEntry ELSE NoEntry] }
    /\ lkCalls = [p \in Procs |-> LkIdle]
    /\ written = { slots[k] : k \in { j \in LkKeys : slots[j].present } }
    /\ lkClock = 0

\* Lines 121-122: the call has its key and now, and arrives at RLock.
LkEnter(p) ==
    /\ lkCalls[p].pc = "idle"
    /\ \E key \in LkKeys :
        lkCalls' = [lkCalls EXCEPT ![p] =
            [lkCalls[p] EXCEPT !.pc = "rlock", !.key = key, !.now = lkClock,
                      !.suspended = { q \in Procs : lkCalls[q].pc \in Suspended },
                      !.arrivedDuring = IF cacheMutex.writer = 0 THEN "none"
                                        ELSE lkCalls[cacheMutex.writer].pc]]
    /\ UNCHANGED <<cacheMutex, slots, written, lkClock>>
    /\ UNCHANGED <<svcVars, selVars, keyVars>>

\* Line 125: s.cacheMutex.RLock()
LkRLock(p) ==
    /\ lkCalls[p].pc = "rlock"
    /\ CanRLock(cacheMutex)
    /\ cacheMutex' = [cacheMutex EXCEPT !.readers = @ \cup {p}]
    /\ lkCalls' = [lkCalls EXCEPT ![p].pc = "read1"]
    /\ UNCHANGED <<slots, written, lkClock>>
    /\ UNCHANGED <<svcVars, selVars, keyVars>>

\* Line 126, first half: found and entry.recordings.
LkReadRecordings(p) ==
    /\ lkCalls[p].pc = "read1"
    /\ LET c == lkCalls[p]
       IN  lkCalls' = [lkCalls EXCEPT ![p] =
               [c EXCEPT !.pc = "read2", !.found = slots[c.key].present,
                         !.recordings = slots[c.key].recordings]]
    /\ UNCHANGED <<cacheMutex, slots, written, lkClock>>
    /\ UNCHANGED <<svcVars, selVars, keyVars>>

\* Line 126, second half: entry.expiresAt.
LkReadExpires(p) ==
    /\ lkCalls[p].pc = "read2"
    /\ LET c == lkCalls[p]
       IN  lkCalls' = [lkCalls EXCEPT ![p] =
               [c EXCEPT !.pc = "runlock", !.expiresAt = slots[c.key].expiresAt]]
    /\ UNCHANGED <<cacheMutex, slots, written, lkClock>>
    /\ UNCHANGED <<svcVars, selVars, keyVars>>

\* Lines 127-139: RUnlock and the hit test; a hit returns, a miss goes to the limiter.
LkRUnlock(p) ==
    /\ lkCalls[p].pc = "runlock"
    /\ cacheMutex' = AfterRUnlock(cacheMutex, p)
    /\ LET c == lkCalls[p]
       IN  IF IsCacheHit(c.found, c.now, c.expiresAt)
           THEN lkCalls' = [lkCalls EXCEPT ![p] = [c EXCEPT !.pc = "done", !.hit = TRUE]]
           ELSE lkCalls' = [lkCalls EXCEPT ![p] = [c EXCEPT !.pc = "wait"]]
    /\ UNCHANGED <<slots, written, lkClock>>
    /\ UNCHANGED <<svcVars, selVars, keyVars>>

\* Line 155: limiter.Wait returns; lines 162-168 start the round trip.
LkAdmit(p) ==
    /\ lkCalls[p].pc = "wait"
    /\ lkCalls' = [lkCalls EXCEPT ![p].pc = "inflight"]
    /\ UNCHANGED <<cacheMutex, slots, written, lkClock>>
    /\ UNCHANGED <<svcVars, selVars, keyVars>>

\* Lines 168-185: the round trip ends; an error returns, a decoded body goes on to
\* the write.
LkResponse(p) ==
    /\ lkCalls[p].pc = "inflight"
    /\ \E ok \in BOOLEAN :
        lkCalls' = [lkCalls EXCEPT ![p].pc = IF ok THEN "lock" ELSE "done"]
    /\ UNCHANGED <<cacheMutex, slots, written, lkClock>>
    /\ UNCHANGED <<svcVars, selVars, keyVars>>

\* Line 188: s.cacheMutex.Lock() begins; from here RLock waits.
LkLock(p) ==
    /\ lkCalls[p].pc = "lock"
    /\ CanLock(cacheMutex)
    /\ cacheMutex' = [cacheMutex EXCEPT !.writer = p]
    /\ lkCalls' = [lkCalls EXCEPT ![p].pc = "lockwait"]
    /\ UNCHANGED <<slots, written, lkClock>>
    /\ UNCHANGED <<svcVars, selVars, keyVars>>

\* Line 188: Lock returns.
LkLockAcquired(p) ==
    /\ lkCalls[p].pc = "lockwait"
    /\ ReadersGone(cacheMutex)
    /\ lkCalls' = [lkCalls EXCEPT ![p].pc = "write1"]
    /\ UNCHANGED <<cacheMutex, slots, written, lkClock>>
    /\ UNCHANGED <<svcVars, selVars, keyVars>>

\* Lines 189-192, first half: the cacheEntry is built (time.Now().Add(s.cacheTTL))
\* and its recordings are stored.
LkWriteRecordings(p) ==
    /\ lkCalls[p].pc = "write1"
    /\ LET c == lkCalls[p]
           e == [present |-> TRUE, recordings |-> p + 1, expiresAt |-> ExpiresAt(c.now, lkClock)]
       IN  /\ lkCalls' = [lkCalls EXCEPT ![p] = [c EXCEPT !.pc = "write2", !.newEntry = e]]
           /\ slots' = [slots EXCEPT ![c.key].present = TRUE, ![c.key].recordings = e.recordings]
           /\ written' = written \cup {e}
    /\ UNCHANGED <<cacheMutex, lkClock>>
    /\ UNCHANGED <<svcVars, selVars, keyVars>>

\* Lines 189-192, second half: its expiresAt is stored.
LkWriteExpires(p) ==
    /\ lkCalls[p].pc = "write2"
    /\ slots' = [slots EXCEPT ![lkCalls[p].key].expiresAt = lkCalls[p].newEntry.expiresAt]
    /\ lkCalls' = [lkCalls EXCEPT ![p].pc = "unlock"]
    /\ UNCHANGED <<cacheMutex, written, lkClock>>
    /\ UNCHANGED <<svcVars, selVars, keyVars>>

\* Lines 193-197: Unlock and return.
LkUnlock(p) ==
    /\ lkCalls[p].pc = "unlock"
    /\ cacheMutex' = [cacheMutex EXCEPT !.writer = 0]
    /\ lkCalls' = [lkCalls EXCEPT ![p].pc = "done"]
    /\ UNCHANGED <<slots, written, lkClock>>
    /\ UNCHANGED <<svcVars, selVars, keyVars>>

\* Time passes while a call is in progress or still to come.
LkTick ==
    /\ lkClock < MaxTime
    /\ \E p \in Procs : lkCalls[p].pc # "done"
    /\ lkClock' = lkClock + 1
    /\ UNCHANGED <<cacheMutex, slots, lkCalls, written>>
    /\ UNCHANGED <<svcVars, selVars, keyVars>>

LockNext ==
    \/ \E p \in Procs : LkEnter(p)
    \/ \E p \in Procs : LkRLock(p)
    \/ \E p \in Procs : LkReadRecordings(p)
    \/ \E p \in Procs : LkReadExpires(p)
    \/ \E p \in Procs : LkRUnlock(p)
    \/ \E p \in Procs : LkAdmit(p)
    \/ \E p \in Procs : LkResponse(p)
    \/ \E p \in Procs : LkLock(p)
    \/ \E p \in Procs : LkLockAcquired(p)
    \/ \E p \in Procs : LkWriteRecordings(p)
    \/ \E p \in Procs : LkWriteExpires(p)
    \/ \E p \in Procs : LkUnlock(p)
    \/ LkTick

LockSpec == LockInit /\ [][LockNext]_vars

-----------------------------------------------------------------------------
(* GetBestRelease on its own: every list of up to MaxReleases releases.    *)

\* Longest release list handed to GetBestRelease.
MaxReleases == 3

D1990 == <<"1", "9", "9", "0">>

D2005 == <<"2", "0", "0", "5">>

\* The releases the lists are made of: dated, undated and short-dated ones, titles
\* equal to and different from the track titles, preferred and other countries, and
\* two that differ in the country alone.
SelReleases ==
    { [ID |-> <<"a">>, Title |-> <<"Y">>, Date |-> D1990, Country |-> <<"U", "S">>],
      [ID |-> <<"b">>, Title |-> <<"Y">>, Date |-> D2005, Country |-> <<"D", "E">>],
      [ID |-> <<"b">>, Title |-> <<"Y">>, Date |-> D2005, Country |-> <<"U", "S">>],
      [ID |-> <<"a">>, Title |-> <<"X">>, Date |-> D1990, Country |-> <<"D", "E">>],
      [ID |-> <<"b">>, Title |-> <<"Y">>, Date |-> <<>>, Country |-> <<"X", "W">>],
      [ID |-> <<"a">>, Title |-> <<"X">>, Date |-> <<"1", "9", "9">>, Country |-> <<"U", "S">>],
      [ID |-> <<"c">>, Title |-> <<"X">>, Date |-> D2005 \o <<"-", "0", "1">>, Country |-> <<"X", "W">>],
      [ID |-> <<"c">>, Title |-> <<"Y">>, Date |-> <<>>, Country |-> <<"D", "E">>] }

SelTitles == { <<"X">>, <<"Y">> }

SelLists == UNION { [1..n -> SelReleases] : n \in 0..MaxReleases }

\* The orders in which the elements of s can be handed over.
OrdersOf(s) ==
    { [i \in 1..Len(s) |-> s[f[i]]] :
        f \in { g \in [1..Len(s) -> 1..Len(s)] : \A i, j \in 1..Len(s) : g[i] = g[j] => i = j } }

SelInit ==
    /\ clock = 0
    /\ searchCache = <<>>
    /\ heap = <<>>
    /\ limiter = [tokens |-> BurstTokens, last |-> 0, lastEvent |-> 0]
    /\ calls = [p \in Procs |-> IdleCall]
    /\ crashed = FALSE
    /\ ncalls = 0
    /\ fetched = <<>>
    /\ selPc = "ready"
    /\ selIn \in SelLists
    /\ selTitle \in SelTitles
    /\ selOut = NilRelease
    /\ selArr = selIn
    /\ selPerm \in OrdersOf(selIn)
    /\ selOutPerm = NilRelease
    /\ keyPc = "off"
    /\ keyA = NoParams
    /\ keyB = NoParams
    /\ keyOfA = <<>>
    /\ keyOfB = <<>>
    /\ LockOff

\* One call of GetBestRelease(selIn, selTitle), and one on a copy of the slice in
\* the order selPerm.
SelCall ==
    /\ selPc = "ready"
    /\ selPc' = "done"
    /\ selOut' = GetBestRelease(selIn, selTitle)
    /\ selArr' = ReleasesAfter(selIn)
    /\ selOutPerm' = GetBestRelease(selPerm, selTitle)
    /\ UNCHANGED <<selIn, selTitle, selPerm>>
    /\ UNCHANGED <<svcVars, keyVars, lockVars>>

SelNext == SelCall

SpecSel == SelInit /\ [][SelNext]_vars

-----------------------------------------------------------------------------
(* generateCacheKey on its own: every pair of parameter triples.           *)

\* Longest string made of the characters of KeyAlphabet.
MaxKeyLen == 1

\* A letter and the character that separates the fields of the key.
KeyAlphabet == { "a", "&" }

\* Values that look like parts of a key: the character between a field's name and
\* its value, a field separator with its name, a field name, and the escaped form
\* of "&".
KeySpecial ==
    { <<"=">>,
      <<"&", "a", "r", "t", "i", "s", "t", "=">>,
      <<"t", "r", "a", "c", "k", "=">>,
      <<"%", "2", "6">> }

KeyStrings == UNION { [1..n -> KeyAlphabet] : n \in 0..MaxKeyLen } \cup KeySpecial

KeyTriples == [Track : KeyStrings, Artist : KeyStrings, Release : KeyStrings]

KeyInit ==
    /\ clock = 0
    /\ searchCache = <<>>
    /\ heap = <<>>
    /\ limiter = [tokens |-> BurstTokens, last |-> 0, lastEvent |-> 0]
    /\ calls = [p \in Procs |-> IdleCall]
    /\ crashed = FALSE
    /\ ncalls = 0
    /\ fetched = <<>>
    /\ selPc = "off"
    /\ selIn = <<>>
    /\ selTitle = <<>>
    /\ selOut = NilRelease
    /\ selArr = <<>>
    /\ selPerm = <<>>
    /\ selOutPerm = NilRelease
    /\ keyPc = "ready"
    /\ keyA \in KeyTriples
    /\ keyB \in KeyTriples
    /\ keyOfA = <<>>
    /\ keyOfB = <<>>
    /\ LockOff

\* generateCacheKey(keyA) and generateCacheKey(keyB).
KeyCall ==
    /\ keyPc = "ready"
    /\ keyPc' = "done"
    /\ keyOfA' = generateCacheKey(keyA)
    /\ keyOfB' = generateCacheKey(keyB)
    /\ UNCHANGED <<keyA, keyB>>
    /\ UNCHANGED <<svcVars, selVars, lockVars>>

KeyNext == KeyCall

SpecKey == KeyInit /\ [][KeyNext]_vars

-----------------------------------------------------------------------------
(* C9 *)

Range(s) == { s[i] : i \in 1..Len(s) }

Undated(r) == Len(r.Date) < 4

\* a comes before b in the order (dated before undated, date, title, id).
RefBefore(a, b) ==
    \/ ~Undated(a) /\ Undated(b)
    \/ /\ Undated(a) = Undated(b)
       /\ \/ StrLess(a.Date, b.Date)
          \/ a.Date = b.Date /\ StrLess(a.Title, b.Title)
          \/ a.Date = b.Date /\ a.Title = b.Title /\ StrLess(a.ID, b.ID)

\* The releases the cascade picks from: the first tier that is not empty.
RefTier(releases, recordingTitle) ==
    LET all == Range(releases)
        t1 == { r \in all : r.Title # recordingTitle /\ r.Country \in { <<"X", "W">>, <<"U", "S">> } }
        t2 == { r \in all : r.Title # recordingTitle }
    IN  IF t1 # {} THEN t1 ELSE IF t2 # {} THEN t2 ELSE all

\* C9: for a list of two or more releases GetBestRelease returns a member of the
\* list that is first, in the order (dated before undated, date, title, id), among
\* the releases with another title and country XW or US; if there are none, among
\* those with another title; if there are none, among all (never nil).
C9_CascadeOverSorted ==
    (selPc = "done" /\ Len(selIn) >= 2) =>
        /\ ~selOut.isNil
        /\ selOut.rel \in RefTier(selIn, selTitle)
        /\ \A r \in RefTier(selIn, selTitle) : ~RefBefore(r, selOut.rel)

\* Reached: a call in which every title equals the track title and an undated
\* release precedes a dated one in the input.
C9_Witness ==
    /\ selPc = "done"
    /\ Len(selIn) = 3
    /\ \A i \in 1..3 : selIn[i].Title = selTitle
    /\ Undated(selIn[1]) /\ ~Undated(selIn[2])
    /\ ~selOut.isNil /\ selOut.rel = selIn[2]

-----------------------------------------------------------------------------
(* Claims about the service, checked under Spec *)

Abs(n) == IF n < 0 THEN 0 - n ELSE n

\* The calls of SearchMusicBrainz that have returned without error.
Succeeded(p) == calls[p].returned /\ calls[p].err = "none"

\* C1: after a successful SearchMusicBrainz call, a later call with the same
\* normalized parameters that starts before the entry's expiresAt acquires nothing
\* from the rate limiter, sends no request, and returns the sequence the earlier
\* call returned.
C1_CacheRoundTrip ==
    \A p \in Procs :
        calls[p].prior # {} =>
            /\ calls[p].admits = 0
            /\ calls[p].requests = 0
            /\ calls[p].pc \in {"check", "post", "done"}
            /\ calls[p].returned =>
                /\ calls[p].err = "none"
                /\ \A r \in calls[p].prior : calls[p].ret = r

\* The part of C1 the code keeps: such a later call is served from the cache.
C1_ServedFromCache ==
    \A p \in Procs :
        calls[p].prior # {} =>
            /\ calls[p].admits = 0
            /\ calls[p].requests = 0
            /\ calls[p].pc \in {"check", "post", "done"}
            /\ calls[p].returned => calls[p].err = "none" /\ calls[p].hit

\* C2 as stated: when all the calls ask for the same parameters, start from a cold
\* cache, run while no entry can have expired, and all succeed, exactly one request
\* went upstream and all results are the same.
C2_Scenario ==
    /\ \A p \in Procs : /\ calls[p].op = "search"
                        /\ calls[p].params = [NoParams EXCEPT !.Track = <<"a", "*">>]
                        /\ Succeeded(p)

RECURSIVE SumRequests(_)
SumRequests(ps) ==
    IF ps = {} THEN 0
    ELSE LET p == CHOOSE x \in ps : TRUE IN calls[p].requests + SumRequests(ps \ {p})

C2_SingleFetch ==
    (C2_Scenario /\ clock < cacheTTL) =>
        /\ SumRequests(Procs) = 1
        /\ \A p, q \in Procs : calls[p].ret = calls[q].ret

\* C2 as amended: in that scenario every call whose cache read found no unexpired
\* entry sent one request of its own and returned what that request decoded, every
\* other call sent none and returned what one of those fetches had stored; so there
\* was at least one request and at most one per call.
C2_FetchPerMiss ==
    C2_Scenario =>
        /\ SumRequests(Procs) = Cardinality({ p \in Procs : calls[p].seen # "fresh" })
        /\ SumRequests(Procs) >= 1
        /\ \A p \in Procs :
            /\ calls[p].requests = IF calls[p].seen = "fresh" THEN 0 ELSE 1
            /\ calls[p].admits = calls[p].requests
            /\ calls[p].ret = fetched[calls[p].ref]
            /\ calls[p].seen = "fresh" =>
                   \E q \in Procs \ {p} : calls[q].requests = 1 /\ calls[q].ref = calls[p].ref

\* Reached: all calls missed the cold cache at the same time, each fetched, and
\* they returned different sequences.
C2_Witness ==
    /\ C2_Scenario
    /\ clock < cacheTTL
    /\ SumRequests(Procs) = MaxCalls
    /\ \E p, q \in Procs : calls[p].ret # calls[q].ret

\* C3: the recordings stored under an unexpired key are what the populating fetch
\* decoded, release order included.
C3_NoMutableAlias ==
    \A key \in DOMAIN searchCache :
        clock < searchCache[key].expiresAt =>
            Deref(heap, searchCache[key].recordings) = Deref(fetched, searchCache[key].recordings)

\* C4: a step in which a call returns an error leaves the cache as it was, and the
\* cache changes only in a step in which a fetch succeeds, by the entry of that fetch.
C4_WriteOnlyOnSuccess ==
    /\ [][\A p \in Procs :
              (~calls[p].returned /\ calls'[p].returned /\ calls'[p].err # "none")
                  => searchCache' = searchCache]_vars
    /\ [][searchCache' # searchCache =>
              \E p \in Procs :
                  /\ calls[p].pc = "inflight"
                  /\ calls'[p].returned /\ calls'[p].err = "none"
                  /\ searchCache' = Put(searchCache, calls[p].key,
                                        [recordings |-> calls'[p].ref,
                                         expiresAt |-> calls'[p].expires])]_vars

\* Reached: a fetch for a key whose entry had expired failed, and the expired entry
\* is still there.
C4_Witness ==
    \E p \in Procs :
        /\ calls[p].returned
        /\ calls[p].err \in {"request_failed", "status", "decode"}
        /\ calls[p].seen = "expired"
        /\ calls[p].key \in DOMAIN searchCache
        /\ searchCache[calls[p].key].expiresAt <= clock

\* C5: a call returns from the cache only if the entry it read had not expired at
\* the call's now; a call that read an expired (or no) entry goes on to the rate
\* limiter and the fetch, and when the fetch succeeds the entry becomes the new
\* recordings with expiresAt = time of the write + TTL.
C5_ExpiredIsMiss ==
    /\ [](\A p \in Procs :
              /\ calls[p].hit => calls[p].seen = "fresh"
              /\ calls[p].seen \in {"absent", "expired"} =>
                   /\ ~calls[p].hit
                   /\ Succeeded(p) => calls[p].admits = 1 /\ calls[p].requests = 1)
    /\ [][\A p \in Procs :
              (calls[p].pc = "check" /\ calls'[p].seen \in {"absent", "expired"})
                  => calls'[p].pc = "wait"]_vars
    /\ [][\A p \in Procs :
              (calls[p].pc = "inflight" /\ calls'[p].returned /\ calls'[p].err = "none")
                  => /\ calls'[p].ref \notin { searchCache[k].recordings : k \in DOMAIN searchCache }
                     /\ searchCache'[calls[p].key] =
                            [recordings |-> calls'[p].ref, expiresAt |-> clock + cacheTTL]
                     /\ Deref(heap', calls'[p].ref) = calls'[p].ret]_vars

\* Reached: a call read an expired entry, fetched, and its result replaced the entry.
C5_Witness ==
    \E p \in Procs :
        /\ calls[p].seen = "expired"
        /\ Succeeded(p)
        /\ searchCache[calls[p].key].recordings = calls[p].ref
        /\ calls[p].ref = 2

HasFirst(p) ==
    /\ calls[p].op = "hydrate"
    /\ calls[p].pc = "done"
    /\ calls[p].returned
    /\ calls[p].ret # <<>>

\* C7: HydrateTrack ends in a MissingRelease error, without crashing and without a
\* track, when the first candidate has no releases.
C7_MissingReleaseError ==
    \A p \in Procs :
        (HasFirst(p) /\ calls[p].ret[1].Releases = <<>>) =>
            /\ calls[p].herr = "missing_release"
            /\ calls[p].out = <<>>
            /\ ~crashed

\* C8: HydrateTrack's ISRC is the first candidate's first ISRC when it has one and
\* the input track's ISRC otherwise, and in both cases a track is returned.
C8_ISRCSelection ==
    \A p \in Procs :
        (HasFirst(p) /\ calls[p].ret[1].Releases # <<>>) =>
            /\ calls[p].herr = "none"
            /\ calls[p].out # <<>>
            /\ calls[p].out[1].ISRC =
                   IF calls[p].ret[1].ISRCs # <<>> THEN calls[p].ret[1].ISRCs[1]
                   ELSE calls[p].track[1].ISRC

\* C10: a call with no search field ends in InvalidInput and has done nothing else:
\* no cleaning, no cache read, no admission, no request, and nothing is stored under
\* the key of the empty parameters.
C10_EmptyInputRejected ==
    /\ \A p \in Procs :
        (calls[p].op # "none" /\ calls[p].params = NoParams) =>
            /\ calls[p].returned
            /\ calls[p].err = "invalid_input"
            /\ ~calls[p].cleaned
            /\ ~calls[p].cacheRead
            /\ calls[p].admits = 0
            /\ calls[p].requests = 0
            /\ calls[p].ret = <<>>
    /\ generateCacheKey(NoParams) \notin DOMAIN searchCache

\* Reached: a call with no search field has returned while the cache holds an entry
\* and the limiter has been used.
C10_Witness ==
    \E p \in Procs :
        /\ calls[p].op = "search"
        /\ calls[p].params = NoParams
        /\ calls[p].pc = "done"
        /\ calls[p].err = "invalid_input"
        /\ DOMAIN searchCache # {}

-----------------------------------------------------------------------------
(* Claims about HydrateTrack's error returns *)

\* C11: a HydrateTrack call whose search returned an error returns that error, one
\* whose search returned no recordings returns the NoResults error, and in both
\* cases it returns no track (and nothing has crashed because of it).
C11_HydrateErrors ==
    \A p \in Procs :
        (calls[p].op = "hydrate" /\ calls[p].pc = "done") =>
            /\ calls[p].err # "none" =>
                   calls[p].herr = calls[p].err /\ calls[p].out = <<>>
            /\ (calls[p].err = "none" /\ calls[p].ret = <<>>) =>
                   calls[p].herr = "no_results" /\ calls[p].out = <<>>

\* Reached: one HydrateTrack call has returned the error of a failed search and
\* another the NoResults error for an empty sequence.
C11_Witness ==
    \E p, q \in Procs :
        /\ calls[p].op = "hydrate" /\ calls[p].pc = "done"
        /\ calls[p].err = "status" /\ calls[p].herr = "status" /\ calls[p].out = <<>>
        /\ calls[q].op = "hydrate" /\ calls[q].pc = "done"
        /\ calls[q].err = "none" /\ calls[q].ret = <<>>
        /\ calls[q].herr = "no_results" /\ calls[q].out = <<>>

\* The HydrateTrack call of p has returned a track.
Hydrated(p) ==
    /\ calls[p].op = "hydrate"
    /\ calls[p].pc = "done"
    /\ calls[p].out # <<>>

\* C20: the track HydrateTrack returns has the input's HasStamped, PlayID, Name,
\* URL, ServiceBaseUrl, Timestamp and ProgressMs; its recording id and duration are
\* the first candidate's, its album title and release id are those of one of the
\* first candidate's releases, and its artists are the first candidate's credits,
\* one for one; two calls with the same input whose searches returned the same
\* first candidate return the same track, whatever candidates follow.
C20_FirstCandidateOnly ==
    /\ \A p \in Procs :
           Hydrated(p) =>
               LET track == calls[p].track[1]
                   o == calls[p].out[1]
                   first == calls[p].ret[1]
               IN  /\ calls[p].herr = "none"
                   /\ o.HasStamped = track.HasStamped
                   /\ o.PlayID = track.PlayID
                   /\ o.Name = track.Name
                   /\ o.URL = track.URL
                   /\ o.ServiceBaseUrl = track.ServiceBaseUrl
                   /\ o.Timestamp = track.Timestamp
                   /\ o.ProgressMs = track.ProgressMs
                   /\ o.RecordingMBID = first.ID
                   /\ o.DurationMs = first.Length
                   /\ \E r \in Range(first.Releases) : o.Album = r.Title /\ o.ReleaseMBID = r.ID
                   /\ Len(o.Artist) = Len(first.ArtistCredit)
                   /\ \A i \in 1..Len(o.Artist) :
                          /\ o.Artist[i].Name = first.ArtistCredit[i].Name
                          /\ o.Artist[i].ID = first.ArtistCredit[i].ArtistID
                          /\ o.Artist[i].MBID = first.ArtistCredit[i].ArtistID
    /\ \A p, q \in Procs :
           (/\ Hydrated(p) /\ Hydrated(q)
            /\ calls[p].track = calls[q].track
            /\ calls[p].ret[1].ID = calls[q].ret[1].ID)
               => calls[p].out = calls[q].out

\* Reached: two calls for a track that names an artist have returned the same
\* track, with the candidate's artist in place of the input's, one from a search
\* that returned two candidates and one from a search that returned the first alone.
C20_Witness ==
    \E p, q \in Procs :
        /\ Hydrated(p) /\ Hydrated(q)
        /\ calls[p].track = calls[q].track
        /\ calls[p].track[1].Artist # <<>>
        /\ calls[p].out[1].Artist # calls[p].track[1].Artist
        /\ Len(calls[p].ret) = 2
        /\ Len(calls[q].ret) = 1
        /\ calls[p].ret[2].ID # calls[p].ret[1].ID
        /\ calls[p].out = calls[q].out

-----------------------------------------------------------------------------
(* Claims about cancellation and retries *)

\* The context of p's call was cancelled while the call was on its way into
\* limiter.Wait or suspended in it.
CancelledInWait(p) == calls[p].cancelledIn \in {"wait", "sleep"}

\* The errors that wrap ctx.Err() (lines 157 and 171).
CancellationErrors == {"cancelled", "request_ctx"}

\* C16: a SearchMusicBrainz call whose context is cancelled while it waits for the
\* rate limiter sends no request and never returns a success or any recordings;
\* no step it takes afterwards changes the cache; and it eventually returns an
\* error that wraps the context's error, which is none of the request, status and
\* decode errors.
C16_CancelledInWait ==
    /\ [](\A p \in Procs :
              CancelledInWait(p) =>
                  /\ calls[p].requests = 0
                  /\ ~calls[p].hit
                  /\ calls[p].returned =>
                         /\ calls[p].err \in CancellationErrors
                         /\ calls[p].ref = 0
                         /\ calls[p].ret = <<>>)
    /\ [][\A p \in Procs :
              (CancelledInWait(p) /\ calls'[p] # calls[p]) => searchCache' = searchCache]_vars
    /\ \A p \in Procs :
           CancelledInWait(p) ~>
               (calls[p].returned /\ calls[p].err \in CancellationErrors)

\* Reached: a call suspended in limiter.Wait was cancelled before its reservation
\* was due and has returned the cancellation error, while the cache holds an
\* unexpired entry for its key that another call stored in the meantime.
C16_Witness ==
    \E p \in Procs :
        /\ calls[p].cancelledIn = "sleep"
        /\ calls[p].returned
        /\ calls[p].err = "cancelled"
        /\ calls[p].admits = 0
        /\ calls[p].key \in DOMAIN searchCache
        /\ clock < searchCache[calls[p].key].expiresAt
        /\ clock < calls[p].timeToAct

\* C17: a call is admitted by the limiter at most once and sends at most one
\* request; whatever the request ends in, the step in which it ends returns from
\* the call, and a call that has returned acquires and sends nothing more.
C17_NoRetry ==
    /\ [](\A p \in Procs :
              /\ calls[p].admits <= 1
              /\ calls[p].requests <= calls[p].admits)
    /\ [][\A p \in Procs :
              (calls[p].pc = "inflight" /\ calls'[p].pc # "inflight")
                  => calls'[p].returned /\ calls'[p].pc \in {"done", "post"}]_vars
    /\ [][\A p \in Procs :
              calls[p].returned =>
                  /\ calls'[p].admits = calls[p].admits
                  /\ calls'[p].requests = calls[p].requests
                  /\ calls'[p].err = calls[p].err]_vars

\* Reached: a call whose request ended in a status error has returned it, and the
\* limiter would by now admit another request.
C17_Witness ==
    \E p \in Procs :
        /\ calls[p].pc = "done"
        /\ calls[p].err = "status"
        /\ calls[p].admits = 1
        /\ calls[p].requests = 1
        /\ clock >= calls[p].reqAt + Second
        /\ Advance(limiter, clock) >= Second

-----------------------------------------------------------------------------
(* Claims about the cache lock, checked under LockSpec *)

\* The entry p's map read gave it.
EntryRead(p) ==
    [present |-> lkCalls[p].found, recordings |-> lkCalls[p].recordings,
     expiresAt |-> lkCalls[p].expiresAt]

\* p has finished its map read.
HasRead(p) == lkCalls[p].pc \notin {"idle", "rlock", "read1", "read2"}

\* C18: between RLock and RUnlock of one call no other call is between Lock and
\* Unlock, and at most one call is; so the entry a read finds is either no entry
\* or an entry as one write stored it (recordings and expiresAt of the same write).
C18_NoTornEntry ==
    /\ \A p, q \in Procs :
           lkCalls[p].pc \in ReadSection => lkCalls[q].pc \notin {"write1", "write2", "unlock"}
    /\ \A p, q \in Procs :
           (p # q /\ lkCalls[p].pc \in WriteSection) => lkCalls[q].pc \notin WriteSection
    /\ \A p \in Procs :
           HasRead(p) => (EntryRead(p) = NoEntry \/ EntryRead(p) \in written)

\* Reached: a call arrived at RLock while another was in the middle of its write
\* to the same key, over an older entry, and then read that write's whole entry.
C18_Witness ==
    \E p, q \in Procs :
        /\ p # q
        /\ lkCalls[p].arrivedDuring = "write2"
        /\ lkCalls[p].key = lkCalls[q].key
        /\ EarlierEntry \in written
        /\ HasRead(p)
        /\ EntryRead(p) = lkCalls[q].newEntry
        /\ EntryRead(p).expiresAt # EarlierEntry.expiresAt

\* C19: the calls that hold s.cacheMutex are those inside lines 125-127 and
\* 188-193, so a call suspended in limiter.Wait or in the round trip holds neither
\* lock, and RLock can go ahead unless some call is inside lines 188-193.
C19_LockNotHeldInWaits ==
    /\ \A p \in Procs :
           /\ p \in cacheMutex.readers <=> lkCalls[p].pc \in ReadSection
           /\ cacheMutex.writer = p <=> lkCalls[p].pc \in WriteSection
           /\ lkCalls[p].pc \in Suspended =>
                  p \notin cacheMutex.readers /\ cacheMutex.writer # p
    /\ \A q \in Procs :
           (lkCalls[q].pc = "rlock" /\ \A p \in Procs : lkCalls[p].pc \notin WriteSection)
               => ENABLED LkRLock(q)

\* Reached: a call arrived while another was suspended, found an unexpired entry
\* and returned it, and the other call is still suspended.
C19_Witness ==
    \E p, q \in Procs :
        /\ lkCalls[q].pc = "done"
        /\ lkCalls[q].hit
        /\ p \in lkCalls[q].suspended
        /\ lkCalls[p].pc \in Suspended

-----------------------------------------------------------------------------
(* Claims about GetBestRelease, checked under SpecSel *)

\* C12: for a list of fewer than two releases GetBestRelease does not sort or
\* filter: it returns nil for the empty list and, for a list of one release, that
\* release whatever its title, date and country; the list is left as it was.
C12_ShortLists ==
    (selPc = "done" /\ Len(selIn) < 2) =>
        /\ Len(selIn) = 0 => selOut = NilRelease
        /\ Len(selIn) = 1 => selOut = PtrTo(selIn[1])
        /\ selArr = selIn

\* Reached: the single release has the track's title, no date and a country that
\* is neither XW nor US, and it is returned.
C12_Witness ==
    /\ selPc = "done"
    /\ Len(selIn) = 1
    /\ selIn[1].Title = selTitle
    /\ selIn[1].Date = <<>>
    /\ selIn[1].Country = <<"D", "E">>
    /\ ~selOut.isNil /\ selOut.rel = selIn[1]

\* C14: GetBestRelease leaves the caller's slice as it was: the same releases in
\* the same order after the call as before it.
C14_InputUnchanged ==
    selPc = "done" => selArr = selIn

\* The triple the order compares.
SortKey(r) == <<r.Date, r.Title, r.ID>>

\* No two elements of the list have the same (date, title, id).
DistinctSortKeys(s) ==
    \A i, j \in 1..Len(s) : SortKey(s[i]) = SortKey(s[j]) => i = j

\* C15: when no two releases of the list have the same (date, title, id), the
\* release GetBestRelease returns does not depend on the order of the list.
C15_OrderIndependent ==
    (selPc = "done" /\ DistinctSortKeys(selIn)) => selOutPerm = selOut

\* Reached: three releases with distinct (date, title, id), two of them with the
\* same date and title, handed over in two different orders that are both unsorted,
\* with the same result.
C15_Witness ==
    /\ selPc = "done"
    /\ Len(selIn) = 3
    /\ DistinctSortKeys(selIn)
    /\ \E i, j \in 1..3 : /\ i # j
                           /\ selIn[i].Date = selIn[j].Date
                           /\ selIn[i].Title = selIn[j].Title
    /\ selPerm # selIn
    /\ selIn # SortStable(selIn)
    /\ selPerm # SortStable(selPerm)
    /\ ~selOut.isNil
    /\ selOutPerm = selOut

-----------------------------------------------------------------------------
(* Claims about generateCacheKey, checked under SpecKey *)

\* C13: two parameter triples have the same cache key exactly when they are equal
\* in all three fields, also when their values hold "&", "=" or field names.
C13_KeyInjective ==
    keyPc = "done" => (keyOfA = keyOfB <=> keyA = keyB)

\* Reached: the keys of (Track "&artist=", no Artist) and (no Track, Artist
\* "&artist=") have been computed and differ.
C13_Witness ==
    /\ keyPc = "done"
    /\ keyA = [NoParams EXCEPT !.Track = <<"&", "a", "r", "t", "i", "s", "t", "=">>]
    /\ keyB = [NoParams EXCEPT !.Artist = <<"&", "a", "r", "t", "i", "s", "t", "=">>]
    /\ keyOfA # keyOfB

====
